---- MODULE Spec2Model ----
(***************************************************************************)
(* Model of scripts/get_site_lat_lon.py: the script globs the site         *)
(* directory for *.xlsx files, extracts SITE_ID / LOCATION_LAT /           *)
(* LOCATION_LONG from each one, builds a table, coerces the two            *)
(* coordinate columns to numeric, applies latlon_to_modis row by row,      *)
(* adds the two derived columns and writes the table as CSV.               *)
(*                                                                         *)
(* Numbers are integers here: the int/float distinction of pandas dtypes   *)
(* is not modelled.  Spreadsheet cells are tagged values so that a numeric *)
(* string, a number, an empty cell (NaN) and other text stay distinct.     *)
(***************************************************************************)
EXTENDS Integers, Sequences, FiniteSets, TLC

\* ---------------------------------------------------------------- bounds
\* Number of *.xlsx paths that may exist in the site directory.
MaxFiles == 2
\* Largest number of data rows of a spreadsheet in the bounded enumeration
\* used for the per-file extraction.
MaxRows == 3

\* ------------------------------------------------------------ cell values
Num(n) == [t |-> "num", n |-> n, s |-> <<>>]
Str(s) == [t |-> "str", n |-> 0, s |-> s]
NaN == [t |-> "nan", n |-> 0, s |-> <<>>]

Range(seq) == {seq[k] : k \in 1..Len(seq)}

\* ----------------------------------------------------- dict / exceptions
\* A Python dict, kept as the sequence of its <<key, value>> items in
\* insertion order.
DictKeys(d) == [k \in 1..Len(d) |-> d[k][1]]

DictGet(d, key) ==
    LET k == CHOOSE k \in 1..Len(d) : d[k][1] = key IN d[k][2]

DictSet(d, key, val) ==
    IF \E k \in 1..Len(d) : d[k][1] = key
    THEN [k \in 1..Len(d) |-> IF d[k][1] = key THEN <<key, val>> ELSE d[k]]
    ELSE Append(d, <<key, val>>)

Return(v) == [exc |-> "none", val |-> v]
Raise(e) == [exc |-> e, val |-> <<>>]

\* --------------------------------------------------------- get_site_lat_lon
target_vars == <<"LOCATION_LAT", "LOCATION_LONG">>

\* pd.read_excel(path): raises on a file that is no readable workbook.
read_excel(file) ==
    IF file.readable THEN Return(file) ELSE Raise("ReadError")

\* f[name]: the column, KeyError when the sheet has no such header.
HasColumn(f, name) == name \in f.cols

\* f["VARIABLE"].isin([tv]): the boolean mask, one entry per row.
isin(f, tv) == [k \in 1..Len(f.rows) |-> f.rows[k]["VARIABLE"] = tv]

\* f[mask]: the rows the mask selects, in file order.
RECURSIVE MaskRows(_, _, _)
MaskRows(rows, mask, k) ==
    IF k > Len(rows) THEN <<>>
    ELSE (IF mask[k] THEN <<rows[k]>> ELSE <<>>) \o MaskRows(rows, mask, k + 1)

\* Variant: .values[-1], the last match instead of the first.
ValuesLast(vals) == vals[Len(vals)]

\* .values[0]
Values0(vals) == vals[1]

RECURSIVE ExtractTargets(_, _, _)
ExtractTargets(f, out, k) ==
    IF k > Len(target_vars) THEN Return(out)
    ELSE LET tv == target_vars[k] IN
         IF ~HasColumn(f, "VARIABLE") THEN Raise("KeyError")
         ELSE LET sel == MaskRows(f.rows, isin(f, tv), 1) IN
              IF ~HasColumn(f, "DATAVALUE") THEN Raise("KeyError")
              ELSE IF Len(sel) = 0 THEN Raise("IndexError")
              ELSE ExtractTargets(f,
                       DictSet(out, tv, Values0([j \in 1..Len(sel) |-> sel[j]["DATAVALUE"]])),
                       k + 1)

get_site_lat_lon(file) ==
    LET r == read_excel(file) IN
    IF r.exc # "none" THEN r
    ELSE LET f == r.val IN
         IF ~HasColumn(f, "SITE_ID") THEN Raise("KeyError")
         ELSE IF Len(f.rows) = 0 THEN Raise("IndexError")
         ELSE ExtractTargets(f,
                  DictSet(<<>>, "SITE_ID", Values0([j \in 1..Len(f.rows) |-> f.rows[j]["SITE_ID"]])),
                  1)

\* ------------------------------------------------------------- DataFrame
\* A DataFrame: its column names in order, and one row (a function from
\* column name to value) per index position.
RECURSIVE KeysInOrder(_, _)
KeysInOrder(records, k) ==
    IF k > Len(records) THEN <<>>
    ELSE LET rest == KeysInOrder(records, k + 1)
             mine == DictKeys(records[k])
         IN mine \o SelectSeq(rest, LAMBDA c : c \notin Range(mine))

HasKey(d, key) == \E k \in 1..Len(d) : d[k][1] = key

PlainFrame(records) ==
    LET cols == KeysInOrder(records, 1) IN
    [columns |-> cols,
     rows |-> [k \in 1..Len(records) |->
                 [c \in Range(cols) |->
                    IF HasKey(records[k], c) THEN DictGet(records[k], c) ELSE NaN]]]

\* Variant: one row per SITE_ID, a later dict with a SITE_ID already seen
\* is dropped (drop_duplicates("SITE_ID")).
DataFrameMerged(records) ==
    PlainFrame(SelectSeq(records,
        LAMBDA d : d = records[CHOOSE k \in 1..Len(records) :
                                  /\ DictGet(records[k], "SITE_ID") = DictGet(d, "SITE_ID")
                                  /\ \A j \in 1..(k - 1) :
                                        DictGet(records[j], "SITE_ID") # DictGet(d, "SITE_ID")]))

\* Variant: the columns are named up front (columns=[...]), so that no
\* record at all still gives the three columns.
DataFrameWithColumns(records) ==
    IF Len(records) = 0
    THEN [columns |-> <<"SITE_ID", "LOCATION_LAT", "LOCATION_LONG">>, rows |-> <<>>]
    ELSE PlainFrame(records)

\* pd.DataFrame(list of dicts): one row per dict, in list order; the
\* columns are the dicts' keys; a key a dict lacks reads NaN.
DataFrame(records) == PlainFrame(records)

\* df[name] read: the column's values by row.
GetColumn(df, name) == [k \in 1..Len(df.rows) |-> df.rows[k][name]]

\* df[name] = vals: replaces the column when it exists, else appends it as
\* the last column; vals[k] goes to row k.
SetColumn(df, name, vals) ==
    [columns |-> IF name \in Range(df.columns) THEN df.columns
                 ELSE Append(df.columns, name),
     rows |-> [k \in 1..Len(df.rows) |->
                 [c \in Range(df.columns) \cup {name} |->
                    IF c = name THEN vals[k] ELSE df.rows[k][c]]]]

\* ------------------------------------------------------------ to_numeric
DigitChars == <<"0", "1", "2", "3", "4", "5", "6", "7", "8", "9">>

IsDigit(c) == c \in Range(DigitChars)

DigitVal(c) == (CHOOSE k \in 1..Len(DigitChars) : DigitChars[k] = c) - 1

RECURSIVE DigitsVal(_, _)
DigitsVal(s, acc) ==
    IF Len(s) = 0 THEN acc ELSE DigitsVal(Tail(s), acc * 10 + DigitVal(Head(s)))

\* Text that parses as a number: an optional sign, then digits.
IsNumericText(s) ==
    LET body == IF Len(s) > 0 /\ Head(s) = "-" THEN Tail(s) ELSE s
    IN Len(body) > 0 /\ \A k \in 1..Len(body) : IsDigit(body[k])

ParseNumber(s) ==
    IF Head(s) = "-" THEN 0 - DigitsVal(Tail(s), 0) ELSE DigitsVal(s, 0)

\* A cell pd.to_numeric accepts: a number, an empty cell (NaN), or text
\* that parses as a number.
Coercible(v) ==
    \/ v.t = "num"
    \/ v.t = "nan"
    \/ v.t = "str" /\ IsNumericText(v.s)

ToNumericCell(v) ==
    CASE v.t = "num" -> v
      [] v.t = "nan" -> NaN
      [] OTHER -> Num(ParseNumber(v.s))

\* Variant: errors="ignore", the column is returned as it is when a cell
\* cannot be parsed.
to_numeric_ignore(col) ==
    IF \E k \in 1..Len(col) : ~Coercible(col[k]) THEN Return(col)
    ELSE Return([k \in 1..Len(col) |-> ToNumericCell(col[k])])

\* pd.to_numeric(column), errors="raise": every cell converted, or
\* ValueError when one cell cannot be parsed.
to_numeric(col) ==
    IF \E k \in 1..Len(col) : ~Coercible(col[k]) THEN Raise("ValueError")
    ELSE Return([k \in 1..Len(col) |-> ToNumericCell(col[k])])

\* --------------------------------------------------------- latlon_to_modis
\* util.latlon_to_modis is outside this file: its result is kept as the
\* uninterpreted pair (x of (lat, lon), y of (lat, lon)).
latlon_to_modis(lat, lon) ==
    << [t |-> "modis_x", lat |-> lat, lon |-> lon],
       [t |-> "modis_y", lat |-> lat, lon |-> lon] >>

\* ---------------------------------------------------------------- to_csv
\* df.to_csv(path, index=...): a header line of the column names and one
\* line per row holding the row's values in column order; with index=True
\* a leading unnamed column holds the row index.
to_csv(df, index) ==
    [header |-> (IF index THEN <<"">> ELSE <<>>) \o df.columns,
     lines |-> [k \in 1..Len(df.rows) |->
                  (IF index THEN <<Num(k - 1)>> ELSE <<>>)
                  \o [c \in 1..Len(df.columns) |-> df.rows[k][df.columns[c]]]]]

\* Variant: index left at the pandas default.
CsvIndexDefault == TRUE

\* line 39: index=False
CsvIndex == FALSE

\* ------------------------------------------------------------ transform
\* site_locs[["LOCATION_LAT", "LOCATION_LONG"]].itertuples(index=False):
\* one tuple per row, holding the named columns' values in the named order.
itertuples(df, names) ==
    [k \in 1..Len(df.rows) |-> [c \in 1..Len(names) |-> df.rows[k][names[c]]]]

\* Variant: longitude handed over first.
TransformPointSwapped(x) == latlon_to_modis(x[2], x[1])

\* lambda x: latlon_to_modis(x[0], x[1])
TransformPoint(x) == latlon_to_modis(x[1], x[2])

\* Variant: the first point's component for every row.
ComponentOfFirst(points, c) == [k \in 1..Len(points) |-> points[1][c + 1]]

\* [s[c] for s in site_points_modis], c counted from 0
Component(points, c) == [k \in 1..Len(points) |-> points[k][c + 1]]

\* ------------------------------------------------------------- the inputs
SiteA == Str(<<"U", "S", "-", "A">>)
SiteB == Str(<<"U", "S", "-", "B">>)

AllCols == {"SITE_ID", "VARIABLE", "DATAVALUE"}

\* One data row of a sheet: its cells under the three headers.
Row(id, var, val) ==
    [c \in AllCols |-> IF c = "SITE_ID" THEN id ELSE IF c = "VARIABLE" THEN var ELSE val]

Sheet(cols, rows) == [readable |-> TRUE, cols |-> cols, rows |-> rows]

\* A file read_excel cannot open.
NotAWorkbook == [readable |-> FALSE, cols |-> {}, rows |-> <<>>]

GoodRows ==
    << Row(SiteA, "LOCATION_ELEV", Num(3)),
       Row(SiteA, "LOCATION_LAT", Num(45)),
       Row(SiteA, "LOCATION_LONG", Str(<<"-", "9", "0">>)) >>

\* The spreadsheets the site directory may hold.
SampleFiles ==
    { Sheet(AllCols, GoodRows),
      \* LOCATION_LAT given twice, as text first
      Sheet(AllCols, << Row(SiteB, "LOCATION_LAT", Str(<<"1", "2">>)),
                        Row(SiteB, "LOCATION_LAT", Num(99)),
                        Row(SiteB, "LOCATION_LONG", Num(7)) >>),
      \* the SITE_ID of GoodRows again, other coordinates, longitude first
      Sheet(AllCols, << Row(SiteA, "LOCATION_LONG", Num(5)),
                        Row(SiteA, "LOCATION_LAT", Num(6)) >>),
      \* empty latitude cell
      Sheet(AllCols, << Row(SiteB, "LOCATION_LAT", NaN),
                        Row(SiteB, "LOCATION_LONG", Num(1)) >>),
      \* text that is no number
      Sheet(AllCols, << Row(SiteA, "LOCATION_LAT", Num(1)),
                        Row(SiteA, "LOCATION_LONG", Str(<<"n", "/", "a">>)) >>),
      Sheet(AllCols, << Row(SiteB, "LOCATION_LAT", Str(<<"4", "N">>)),
                        Row(SiteB, "LOCATION_LONG", Num(2)) >>),
      \* no LOCATION_LAT row, no LOCATION_LONG row
      Sheet(AllCols, << Row(SiteA, "LOCATION_LONG", Num(1)) >>),
      Sheet(AllCols, << Row(SiteA, "LOCATION_LAT", Num(1)),
                        Row(SiteA, "location_long", Num(2)) >>),
      \* a column missing, no data row, no workbook
      Sheet(AllCols \ {"SITE_ID"}, GoodRows),
      Sheet(AllCols \ {"VARIABLE"}, GoodRows),
      Sheet(AllCols \ {"DATAVALUE"}, GoodRows),
      Sheet(AllCols, <<>>),
      NotAWorkbook }

\* Directory entries: MaxFiles names ending in .xlsx and one that does not.
XlsxPaths == {[name |-> k, ext |-> "xlsx"] : k \in 1..MaxFiles}
OtherPaths == {[name |-> 0, ext |-> "csv"]}

\* Every directory content: any subset of the paths, a sample spreadsheet
\* behind each .xlsx name.
Directories ==
    UNION { { x @@ [p \in O |-> NotAWorkbook] : x \in [D -> SampleFiles] } :
            <<D, O>> \in (SUBSET XlsxPaths) \X (SUBSET OtherPaths) }

\* Every sequence over S of length at most n.
SeqUpTo(S, n) == UNION {[1..m -> S] : m \in 0..n}

\* Every spreadsheet of at most MaxRows rows over a small alphabet of cells.
BoundedSheets ==
    { Sheet(c, r) :
        <<c, r>> \in (SUBSET AllCols) \X
            SeqUpTo({ Row(id, var, val) :
                        <<id, var, val>> \in {SiteA, SiteB}
                            \X {"LOCATION_LAT", "LOCATION_LONG", "LOCATION_ELEV"}
                            \X {Num(1), Num(2)} },
                    MaxRows) }
    \cup {NotAWorkbook}

\* ------------------------------------------------------------------ state
VARIABLES
    dir,                \* site_dir on disk: path -> file content
    pc,                 \* position of the script
    sites,              \* line 9: the globbed paths
    records,            \* the dicts map(get_site_lat_lon, sites) has yielded
    site_locs,          \* the DataFrame
    site_points_modis,  \* line 32: the results of the transform so far
    written,            \* the contents written to the output CSV, in order
    exc,                \* the uncaught exception, "none" while running
    readLog,            \* the paths handed to read_excel, in order
    callLog             \* the row positions handed to the transform, in order

vars == <<dir, pc, sites, records, site_locs, site_points_modis, written, exc,
          readLog, callLog>>

EmptyFrame == [columns |-> <<>>, rows |-> <<>>]

Start(d) ==
    /\ dir = d
    /\ records = <<>>
    /\ site_locs = EmptyFrame
    /\ site_points_modis = <<>>
    /\ written = <<>>
    /\ exc = "none"
    /\ readLog = <<>>
    /\ callLog = <<>>

Init == \E d \in Directories : Start(d) /\ pc = "glob" /\ sites = <<>>

\* glob's "*.xlsx"
Matches(p) == p.ext = "xlsx"

\* Every order in which the set S can be listed.
Orderings(S) ==
    {s \in [1..Cardinality(S) -> S] : \A a, b \in 1..Cardinality(S) : s[a] = s[b] => a = b}

\* line 9: glob(os.path.join(site_dir, "*.xlsx")), in the order the file
\* system lists them.
Glob ==
    /\ pc = "glob"
    /\ sites' \in Orderings({p \in DOMAIN dir : Matches(p)})
    /\ pc' = "map"
    /\ UNCHANGED <<dir, records, site_locs, site_points_modis, written, exc, readLog, callLog>>

Fail(e) ==
    /\ pc' = "error"
    /\ exc' = e

\* Variant: the file is read a second time before its dict is kept.
MapReturnRereads ==
    /\ pc = "map"
    /\ Len(records) < Len(sites)
    /\ LET path == sites[Len(records) + 1]
           r == get_site_lat_lon(dir[path])
       IN /\ r.exc = "none"
          /\ records' = Append(records, r.val)
          /\ readLog' = readLog \o <<path, path>>
    /\ UNCHANGED <<dir, pc, sites, site_locs, site_points_modis, written, exc, callLog>>

\* line 24, one step of map(get_site_lat_lon, sites) that returns.
MapReturn ==
    /\ pc = "map"
    /\ Len(records) < Len(sites)
    /\ LET path == sites[Len(records) + 1]
           r == get_site_lat_lon(dir[path])
       IN /\ r.exc = "none"
          /\ records' = Append(records, r.val)
          /\ readLog' = Append(readLog, path)
    /\ UNCHANGED <<dir, pc, sites, site_locs, site_points_modis, written, exc, callLog>>

\* Variant: the exception is caught and the file gets empty cells.
MapDefault ==
    /\ pc = "map"
    /\ Len(records) < Len(sites)
    /\ LET path == sites[Len(records) + 1]
           r == get_site_lat_lon(dir[path])
       IN /\ r.exc # "none"
          /\ records' = Append(records, << <<"SITE_ID", NaN>>, <<"LOCATION_LAT", NaN>>,
                                           <<"LOCATION_LONG", NaN>> >>)
          /\ readLog' = Append(readLog, path)
    /\ UNCHANGED <<dir, pc, sites, site_locs, site_points_modis, written, exc, callLog>>

\* line 24, one step of map(get_site_lat_lon, sites) that raises.
MapRaise ==
    /\ pc = "map"
    /\ Len(records) < Len(sites)
    /\ LET path == sites[Len(records) + 1]
           r == get_site_lat_lon(dir[path])
       IN /\ r.exc # "none"
          /\ Fail(r.exc)
          /\ readLog' = Append(readLog, path)
    /\ UNCHANGED <<dir, sites, records, site_locs, site_points_modis, written, callLog>>

\* line 24: pd.DataFrame(...) once the map is exhausted.
BuildFrame ==
    /\ pc = "map"
    /\ Len(records) = Len(sites)
    /\ site_locs' = DataFrame(records)
    /\ pc' = "coerce_lat"
    /\ UNCHANGED <<dir, sites, records, site_points_modis, written, exc, readLog, callLog>>

\* site_locs[name] = pd.to_numeric(site_locs[name])
Coerce(here, name, next) ==
    /\ pc = here
    /\ name \in Range(site_locs.columns)
    /\ LET r == to_numeric(GetColumn(site_locs, name))
       IN /\ r.exc = "none"
          /\ site_locs' = SetColumn(site_locs, name, r.val)
    /\ pc' = next
    /\ UNCHANGED <<dir, sites, records, site_points_modis, written, exc, readLog, callLog>>

CoerceRaise(here, name) ==
    /\ pc = here
    /\ IF name \notin Range(site_locs.columns) THEN Fail("KeyError")
       ELSE LET r == to_numeric(GetColumn(site_locs, name))
            IN r.exc # "none" /\ Fail(r.exc)
    /\ UNCHANGED <<dir, sites, records, site_locs, site_points_modis, written, readLog, callLog>>

\* line 27
CoerceLat == Coerce("coerce_lat", "LOCATION_LAT", "coerce_long")
CoerceLatRaise == CoerceRaise("coerce_lat", "LOCATION_LAT")

\* line 28
CoerceLong == Coerce("coerce_long", "LOCATION_LONG", "transform")
CoerceLongRaise == CoerceRaise("coerce_long", "LOCATION_LONG")

\* line 30
site_points_latlon == itertuples(site_locs, <<"LOCATION_LAT", "LOCATION_LONG">>)

\* line 32, one step of the map over the rows: the transform returns.
TransformReturn ==
    /\ pc = "transform"
    /\ Len(site_points_modis) < Len(site_points_latlon)
    /\ LET k == Len(site_points_modis) + 1
       IN /\ site_points_modis' = Append(site_points_modis, TransformPoint(site_points_latlon[k]))
          /\ callLog' = Append(callLog, k)
    /\ UNCHANGED <<dir, pc, sites, records, site_locs, written, exc, readLog>>

\* line 32, one step of the map over the rows: the transform raises.
TransformRaise ==
    /\ pc = "transform"
    /\ Len(site_points_modis) < Len(site_points_latlon)
    /\ callLog' = Append(callLog, Len(site_points_modis) + 1)
    /\ Fail("TransformError")
    /\ UNCHANGED <<dir, sites, records, site_locs, site_points_modis, written, readLog>>

\* Variant: the table is also written as soon as the first derived column
\* is in place.
AssignXAndWrite ==
    /\ pc = "transform"
    /\ Len(site_points_modis) = Len(site_points_latlon)
    /\ site_locs' = SetColumn(site_locs, "LOCATION_MODIS_X", Component(site_points_modis, 0))
    /\ written' = Append(written, to_csv(site_locs', CsvIndex))
    /\ pc' = "assign_y"
    /\ UNCHANGED <<dir, sites, records, site_points_modis, exc, readLog, callLog>>

\* line 34
AssignX ==
    /\ pc = "transform"
    /\ Len(site_points_modis) = Len(site_points_latlon)
    /\ site_locs' = SetColumn(site_locs, "LOCATION_MODIS_X", Component(site_points_modis, 0))
    /\ pc' = "assign_y"
    /\ UNCHANGED <<dir, sites, records, site_points_modis, written, exc, readLog, callLog>>

\* line 35
AssignY ==
    /\ pc = "assign_y"
    /\ site_locs' = SetColumn(site_locs, "LOCATION_MODIS_Y", Component(site_points_modis, 1))
    /\ pc' = "write"
    /\ UNCHANGED <<dir, sites, records, site_points_modis, written, exc, readLog, callLog>>

\* line 39
WriteCsv ==
    /\ pc = "write"
    /\ written' = Append(written, to_csv(site_locs, CsvIndex))
    /\ pc' = "done"
    /\ UNCHANGED <<dir, sites, records, site_locs, site_points_modis, exc, readLog, callLog>>

Next ==
    \/ Glob
    \/ MapReturn
    \/ MapRaise
    \/ BuildFrame
    \/ CoerceLat
    \/ CoerceLatRaise
    \/ CoerceLong
    \/ CoerceLongRaise
    \/ TransformReturn
    \/ TransformRaise
    \/ AssignX
    \/ AssignY
    \/ WriteCsv

Spec == Init /\ [][Next]_vars

\* The script is one thread that keeps running until it ends or raises.
FairSpec == Spec /\ WF_vars(Next)

\* get_site_lat_lon applied to one spreadsheet of the bounded enumeration.
InitFn ==
    \E f \in BoundedSheets :
        LET p == [name |-> 1, ext |-> "xlsx"]
        IN /\ Start(p :> f)
           /\ pc = "map"
           /\ sites = <<p>>

NextFn == MapReturn \/ MapRaise

SpecFn == InitFn /\ [][NextFn]_vars

\* ------------------------------------------------- the script as a whole
\* Lines 24-39 as a function of the directory and of the order in which
\* glob listed the files, every call of the transform returning: the CSV
\* content written, or the exception raised.
ScriptResult(d, order) ==
    LET outs == [k \in 1..Len(order) |-> get_site_lat_lon(d[order[k]])]
    IN IF \E k \in 1..Len(outs) : outs[k].exc # "none"
       THEN Raise(outs[CHOOSE k \in 1..Len(outs) :
                          /\ outs[k].exc # "none"
                          /\ \A j \in 1..(k - 1) : outs[j].exc = "none"].exc)
       ELSE LET df0 == DataFrame([k \in 1..Len(outs) |-> outs[k].val])
            IN IF "LOCATION_LAT" \notin Range(df0.columns) THEN Raise("KeyError")
               ELSE LET lat == to_numeric(GetColumn(df0, "LOCATION_LAT"))
                    IN IF lat.exc # "none" THEN lat
                       ELSE LET df1 == SetColumn(df0, "LOCATION_LAT", lat.val)
                                lon == to_numeric(GetColumn(df1, "LOCATION_LONG"))
                            IN IF lon.exc # "none" THEN lon
                               ELSE LET df2 == SetColumn(df1, "LOCATION_LONG", lon.val)
                                        latlon == itertuples(df2, <<"LOCATION_LAT", "LOCATION_LONG">>)
                                        modis == [k \in 1..Len(latlon) |-> TransformPoint(latlon[k])]
                                        df3 == SetColumn(df2, "LOCATION_MODIS_X", Component(modis, 0))
                                        df4 == SetColumn(df3, "LOCATION_MODIS_Y", Component(modis, 1))
                                    IN Return(to_csv(df4, CsvIndex))

\* =================================================================
\*                              properties
\* =================================================================
Finished == pc \in {"done", "error"}

\* The .xlsx entries of the site directory.
XlsxIn(d) == {p \in DOMAIN d : p.ext = "xlsx"}

\* Index of the first row of the sheet whose VARIABLE is var.
FirstRowWith(file, var) ==
    CHOOSE i \in 1..Len(file.rows) :
        /\ file.rows[i]["VARIABLE"] = var
        /\ \A j \in 1..(i - 1) : file.rows[j]["VARIABLE"] # var

FirstValueOf(file, var) == file.rows[FirstRowWith(file, var)]["DATAVALUE"]

\* A file that is malformed or lacks a required field.
Faulty(file) ==
    \/ ~file.readable
    \/ "SITE_ID" \notin file.cols
    \/ "VARIABLE" \notin file.cols
    \/ "DATAVALUE" \notin file.cols
    \/ ~\E i \in 1..Len(file.rows) : file.rows[i]["VARIABLE"] = "LOCATION_LAT"
    \/ ~\E i \in 1..Len(file.rows) : file.rows[i]["VARIABLE"] = "LOCATION_LONG"

OutputColumns ==
    <<"SITE_ID", "LOCATION_LAT", "LOCATION_LONG", "LOCATION_MODIS_X", "LOCATION_MODIS_Y">>

\* C1: in a run that reaches the CSV write, the globbed list holds every
\* .xlsx entry of the directory exactly once, the output has as many rows
\* as there are such entries, and row k carries the SITE_ID of the k-th
\* enumerated file: no file is skipped, merged with another or emitted twice.
C1_OneRowPerFile ==
    pc = "done" =>
        /\ Len(written) = 1
        /\ Range(sites) = XlsxIn(dir)
        /\ Len(sites) = Cardinality(XlsxIn(dir))
        /\ Len(written[1].lines) = Cardinality(XlsxIn(dir))
        /\ \A k \in 1..Len(written[1].lines) :
              written[1].lines[k][1] = dir[sites[k]].rows[1]["SITE_ID"]

\* Two files with the same SITE_ID were written as two rows, next to an
\* entry that is no .xlsx file.
C1_Witness ==
    /\ pc = "done"
    /\ Len(sites) = 2
    /\ Len(written[1].lines) = 2
    /\ written[1].lines[1][1] = written[1].lines[2][1]
    /\ XlsxIn(dir) # DOMAIN dir

\* C2: every CSV the script writes has exactly the five columns SITE_ID,
\* LOCATION_LAT, LOCATION_LONG, LOCATION_MODIS_X, LOCATION_MODIS_Y in that
\* order, each line holding exactly five values (no index column).
C2_Columns ==
    \A w \in 1..Len(written) :
        /\ written[w].header = OutputColumns
        /\ \A k \in 1..Len(written[w].lines) : Len(written[w].lines[k]) = 5

C2_Witness ==
    /\ pc = "done"
    /\ Len(written) = 1
    /\ Len(written[1].lines) = 2

\* C3: when an enumerated file is faulty, the script never gets past the
\* map over the files: it keeps running until it stops with the uncaught
\* exception of that file, no dict is produced for the faulty file (it is
\* neither skipped nor given a default), and nothing is written.
C3_FaultyFileRaises ==
    (pc # "glob" /\ \E k \in 1..Len(sites) : Faulty(dir[sites[k]])) =>
        LET bad == CHOOSE k \in 1..Len(sites) :
                       /\ Faulty(dir[sites[k]])
                       /\ \A j \in 1..(k - 1) : ~Faulty(dir[sites[j]])
        IN /\ pc \in {"map", "error"}
           /\ written = <<>>
           /\ Len(records) < bad
           /\ pc = "map" => ENABLED Next
           /\ pc = "error" =>
                 /\ exc \in {"ReadError", "KeyError", "IndexError"}
                 /\ Len(records) = bad - 1
                 /\ readLog = SubSeq(sites, 1, bad)
                 /\ ~ENABLED Next

\* The second of two files is faulty and the script has stopped on it.
C3_Witness ==
    /\ pc = "error"
    /\ Len(sites) = 2
    /\ ~Faulty(dir[sites[1]])
    /\ Faulty(dir[sites[2]])
    /\ Len(readLog) = 2

\* C4: with no .xlsx entry in the directory the script stops with an
\* uncaught KeyError at the first column access (line 27) and writes
\* nothing, not even a header.
C4_EmptyDirectoryRaises ==
    XlsxIn(dir) = {} =>
        /\ written = <<>>
        /\ pc \in {"glob", "map", "coerce_lat", "error"}
        /\ pc # "error" => ENABLED Next
        /\ pc = "error" => exc = "KeyError" /\ ~ENABLED Next

C4_Witness ==
    /\ XlsxIn(dir) = {}
    /\ DOMAIN dir # {}
    /\ pc = "error"
    /\ site_locs = EmptyFrame

\* The coordinate cells of row k of the table.
LatOf(k) == site_locs.rows[k]["LOCATION_LAT"]
LongOf(k) == site_locs.rows[k]["LOCATION_LONG"]

IsNumber(v) == v.t = "num"

C6_RowAligned ==
    pc \in {"write", "done"} =>
        /\ Len(site_locs.rows) = Len(sites)
        /\ \A k \in 1..Len(site_locs.rows) :
              LET row == site_locs.rows[k]
                  file == dir[sites[k]]
              IN /\ row["SITE_ID"] = file.rows[1]["SITE_ID"]
                 /\ row["LOCATION_LAT"] = ToNumericCell(FirstValueOf(file, "LOCATION_LAT"))
                 /\ row["LOCATION_LONG"] = ToNumericCell(FirstValueOf(file, "LOCATION_LONG"))
                 /\ row["LOCATION_MODIS_X"] =
                       latlon_to_modis(row["LOCATION_LAT"], row["LOCATION_LONG"])[1]
                 /\ row["LOCATION_MODIS_Y"] =
                       latlon_to_modis(row["LOCATION_LAT"], row["LOCATION_LONG"])[2]
                 /\ pc = "done" =>
                       written[1].lines[k] =
                          << row["SITE_ID"], row["LOCATION_LAT"], row["LOCATION_LONG"],
                             row["LOCATION_MODIS_X"], row["LOCATION_MODIS_Y"] >>

\* Two rows with different coordinates were written, each with a latitude
\* that differs from its longitude.
C6_Witness ==
    /\ pc = "done"
    /\ Len(written[1].lines) = 2
    /\ written[1].lines[1][4] # written[1].lines[2][4]
    /\ \A k \in 1..2 : written[1].lines[k][2] # written[1].lines[k][3]

\* C7: when get_site_lat_lon returns, its dict has exactly the keys
\* SITE_ID, LOCATION_LAT, LOCATION_LONG; SITE_ID is the first data row's
\* SITE_ID and each coordinate is the DATAVALUE of the first row, in file
\* order, whose VARIABLE is exactly that name.
C7_FirstMatch ==
    \A k \in 1..Len(records) :
        LET file == dir[sites[k]]
            out == records[k]
        IN /\ DictKeys(out) = <<"SITE_ID", "LOCATION_LAT", "LOCATION_LONG">>
           /\ out[1][2] = file.rows[1]["SITE_ID"]
           /\ out[2][2] = FirstValueOf(file, "LOCATION_LAT")
           /\ out[3][2] = FirstValueOf(file, "LOCATION_LONG")

\* The call returned on a sheet that starts with a row of another VARIABLE
\* and repeats LOCATION_LAT with a different value.
C7_Witness ==
    /\ Len(records) = 1
    /\ LET rows == dir[sites[1]].rows
       IN /\ Len(rows) = 3
          /\ \E a, b \in 1..3 :
                /\ a < b
                /\ rows[a]["VARIABLE"] = "LOCATION_LAT"
                /\ rows[b]["VARIABLE"] = "LOCATION_LAT"
                /\ rows[a]["DATAVALUE"] # rows[b]["DATAVALUE"]

\* C8: the CSV is written at most once, by the last step only: when it is
\* written the script is done, no exception was raised, every enumerated
\* file has been read, both columns are coerced, the transform has been
\* computed for every row and the written content holds all rows; a run
\* that ends with an exception has written nothing.
C8_AllOrNothing ==
    /\ Len(written) <= 1
    /\ pc = "error" => written = <<>>
    /\ written # <<>> =>
          /\ pc = "done"
          /\ exc = "none"
          /\ Len(readLog) = Len(sites)
          /\ Len(records) = Len(sites)
          /\ Len(site_points_modis) = Len(sites)
          /\ Len(callLog) = Len(sites)
          /\ \A k \in 1..Len(site_locs.rows) :
                LatOf(k).t # "str" /\ LongOf(k).t # "str"
          /\ written[1] = to_csv(site_locs, FALSE)
          /\ Len(written[1].lines) = Len(sites)

\* The transform raised on the second of two rows and nothing was written.
C8_Witness ==
    /\ pc = "error"
    /\ exc = "TransformError"
    /\ Len(site_points_modis) = 1
    /\ Len(sites) = 2
    /\ written = <<>>

\* The lines of a CSV as a bag: line -> number of occurrences.
LineBag(lines) ==
    [l \in Range(lines) |-> Cardinality({k \in 1..Len(lines) : lines[k] = l})]

\* C9: the output rows are in enumeration order, each row being the row the
\* script writes for its own file alone, and every other enumeration order
\* of the same files gives the same rows up to a permutation.
C9_OrderOnlyPermutes ==
    pc = "done" =>
        /\ \A k \in 1..Len(sites) :
              written[1].lines[k] = ScriptResult(dir, <<sites[k]>>).val.lines[1]
        /\ \A other \in Orderings(Range(sites)) :
              /\ ScriptResult(dir, other).exc = "none"
              /\ ScriptResult(dir, other).val.header = written[1].header
              /\ LineBag(ScriptResult(dir, other).val.lines) = LineBag(written[1].lines)
              /\ \A k \in 1..Len(sites) :
                    ScriptResult(dir, other).val.lines[k] =
                       written[1].lines[CHOOSE j \in 1..Len(sites) : sites[j] = other[k]]

\* Two files with different rows were written, with the file of the higher
\* name enumerated first.
C9_Witness ==
    /\ pc = "done"
    /\ Len(sites) = 2
    /\ sites[1].name > sites[2].name
    /\ written[1].lines[1] # written[1].lines[2]

\* C10, as stated: the script ends either done with the CSV written or
\* with an exception and no CSV, and by then every enumerated file has been
\* read exactly once and the transform called exactly once per row.
C10_Original ==
    Finished =>
        /\ pc = "done" <=> Len(written) = 1
        /\ pc = "error" <=> written = <<>>
        /\ \A k \in 1..Len(sites) :
              Cardinality({j \in 1..Len(readLog) : readLog[j] = sites[k]}) = 1
        /\ \A k \in 1..Len(site_locs.rows) :
              Cardinality({j \in 1..Len(callLog) : callLog[j] = k}) = 1

\* What holds of the reads and calls at every moment.
C10_State ==
    /\ pc = "done" => Len(written) = 1 /\ exc = "none"
    /\ pc = "error" => written = <<>> /\ exc # "none"
    /\ Finished => ~ENABLED Next
    /\ \A k \in 1..Len(sites) :
          Cardinality({j \in 1..Len(readLog) : readLog[j] = sites[k]}) <= 1
    /\ \A k \in 1..Len(site_locs.rows) :
          Cardinality({j \in 1..Len(callLog) : callLog[j] = k}) <= 1
    /\ Range(readLog) \subseteq Range(sites)
    /\ Range(callLog) \subseteq 1..Len(site_locs.rows)
    /\ pc = "done" =>
          /\ readLog = sites
          /\ callLog = [k \in 1..Len(site_locs.rows) |-> k]

\* C10, amended: the script terminates, done with the CSV written once or
\* stopped by an exception with no CSV written; no file is read twice and
\* the transform is called at most once per row; in a run that ends done,
\* every enumerated file has been read exactly once, in order, and the
\* transform called exactly once per row, in order.
C10_Terminates == <>Finished /\ []C10_State

\* The script stopped on the first of two files: the second was never read.
C10_Witness ==
    /\ pc = "error"
    /\ Len(sites) = 2
    /\ readLog = <<sites[1]>>

====
